---------------------------- MODULE Spec2Model ----------------------------
(***************************************************************************)
(* A model of the two units of the studylink folder:                       *)
(*                                                                         *)
(*   studyLink_eduEmailValidator_v1.py  validate_edu_email and main        *)
(*   image_store.py                     the upload and the retrieve        *)
(*                                      snippets over table image_store    *)
(*                                                                         *)
(* A Python str is a sequence of characters, each a one-character string   *)
(* (a character a TLA+ string cannot hold is written by its code point,    *)
(* "U+00A0"); a bytes object is a sequence of byte values.  The two        *)
(* regular expressions are computed as Python's re module computes them,   *)
(* '$' included.                                                           *)
(***************************************************************************)
EXTENDS Integers, Sequences, FiniteSets

VARIABLES
    \* ---- the email validator ----
    arg,          \* the argument of a direct call of validate_edu_email
    stdin,        \* the text of standard input not read yet
    read,         \* what the latest input() returned
    user_input,   \* main's local user_input
    ret,          \* what validate_edu_email returned (FALSE before the call)
    out,          \* what has been written to standard output, in order
    stderr,       \* what has been written to standard error, in order
    tty,          \* standard input and standard output are both a terminal
    calls,        \* the calls of main() that have returned
    mpc,          \* where the validator program is
    \* ---- the image store ----
    table,        \* the committed rows of image_store, in insertion order
    infile,       \* content of 'path_to_your_image.jpg', or NoFile
    outfile,      \* content of 'retrieved_image.jpg', or NoFile
    db,           \* the global db: "none", "open", "closed"
    cursor,       \* the global cursor: "none", "open", "closed"
    txn,          \* rows inserted on the connection and not yet committed
    result,       \* the image_data of the rows the SELECT returned
    binary_data,  \* the global binary_data
    image_data,   \* the global image_data
    pc,           \* the statement of image_store.py that runs next
    err,          \* the unhandled exception that ended the script, or "none"
    crash_at,     \* the statement that raised it
    stmts,        \* statements executed on the connection db names
    console,      \* the lines the script printed
    table0,       \* the committed rows when the script started
    outfile0,     \* the output file when the script started
    tampered      \* another client of the database has changed the table

mailVars == <<arg, stdin, read, user_input, ret, out, stderr, tty, calls, mpc>>
dbVars == <<table, infile, outfile, db, cursor, txn, result, binary_data,
            image_data, pc, err, crash_at, stmts, console, table0, outfile0,
            tampered>>
vars == <<mailVars, dbVars>>

---------------------------------------------------------------------------
(* Bounds *)

\* the longest free part (local part, '@', domain) of a generated input
MaxHead == 3
\* the most rows image_store holds
MaxRows == 2

---------------------------------------------------------------------------
(* Characters *)

LowerLetters == <<"a","b","c","d","e","f","g","h","i","j","k","l","m",
                  "n","o","p","q","r","s","t","u","v","w","x","y","z">>
UpperLetters == <<"A","B","C","D","E","F","G","H","I","J","K","L","M",
                  "N","O","P","Q","R","S","T","U","V","W","X","Y","Z">>
Range(f) == {f[i] : i \in DOMAIN f}
Lower == Range(LowerLetters)
Upper == Range(UpperLetters)
\* [a-zA-Z]
Alpha == Lower \cup Upper
Digits == {"0","1","2","3","4","5","6","7","8","9"}
\* [a-zA-Z0-9._%+-]
LocalChars == Alpha \cup Digits \cup {".", "_", "%", "+", "-"}
\* [a-zA-Z0-9.-]
DomainChars == Alpha \cup Digits \cup {".", "-"}
\* what str.strip() removes: the 29 characters c with c.isspace()
Whitespace == {
    "\t", "\n", "U+000B", "\f", "\r", "U+001C", "U+001D", "U+001E", "U+001F",
    " ", "U+0085", "U+00A0", "U+1680", "U+2000", "U+2001", "U+2002", "U+2003",
    "U+2004", "U+2005", "U+2006", "U+2007", "U+2008", "U+2009", "U+200A",
    "U+2028", "U+2029", "U+202F", "U+205F", "U+3000" }

IndexIn(f, c) == CHOOSE i \in DOMAIN f : f[i] = c
\* the case folding of re.IGNORECASE on the letters of the pattern
ToLower(c) == IF c \in Upper THEN LowerLetters[IndexIn(UpperLetters, c)] ELSE c
\* c.swapcase(), a string: beside the letters of the pattern's classes the
\* alphabet has the long s, the Kelvin sign, the dotless i and the sharp s,
\* whose other case is a letter, or two, of the classes
SwapCaseChar(c) ==
    IF c \in Upper THEN <<LowerLetters[IndexIn(UpperLetters, c)]>>
    ELSE IF c \in Lower THEN <<UpperLetters[IndexIn(LowerLetters, c)]>>
    ELSE IF c = "U+017F" THEN <<"S">>
    ELSE IF c = "U+212A" THEN <<"k">>
    ELSE IF c = "U+0131" THEN <<"I">>
    ELSE IF c = "U+00DF" THEN <<"S", "S">>
    ELSE <<c>>

---------------------------------------------------------------------------
(* The two patterns *)

AllIn(s, from, to, S) == \A k \in from..to : s[k] \in S

\* '$' after k characters of s: at the end of the string, or just before a
\* line feed that is the last character
Dollar(s, k) ==
    \/ k = Len(s)
    \/ k = Len(s) - 1 /\ s[Len(s)] = "\n"

\* re.match(r'^[a-zA-Z0-9._%+-]+@[a-zA-Z0-9.-]+\.[a-zA-Z]{2,}$', email):
\* s[1..i-1] the local part, s[i] the '@', s[i+1..j-1] the domain,
\* s[j] the '.', s[j+1..e] the letters, '$' after e
ReMatchEmail(s) ==
    \E e \in 0..Len(s) :
        /\ Dollar(s, e)
        /\ \E i \in 2..e : \E j \in (i+2)..(e-2) :
              /\ s[i] = "@"
              /\ AllIn(s, 1, i-1, LocalChars)
              /\ AllIn(s, i+1, j-1, DomainChars)
              /\ s[j] = "."
              /\ AllIn(s, j+1, e, Alpha)

EduLiteral == <<".", "e", "d", "u">>

\* the mutant of ReSearchEdu that drops re.IGNORECASE
ReSearchEdu_CaseSensitive(s) ==
    \E p \in 1..(Len(s) - 3) :
        /\ \A k \in 1..4 : s[p + k - 1] = EduLiteral[k]
        /\ Dollar(s, p + 3)

\* re.search(r'\.edu$', email, re.IGNORECASE)
ReSearchEdu(s) ==
    \E p \in 1..(Len(s) - 3) :
        /\ \A k \in 1..4 : ToLower(s[p + k - 1]) = EduLiteral[k]
        /\ Dollar(s, p + 3)

---------------------------------------------------------------------------
(* validate_edu_email *)

\* print(f"<msg>{email}")
Line(msg, email) == [msg |-> msg, email |-> email]

InvalidFormat == "Invalid email format: "
NotEdu == "Email does not end with .edu: "
ValidEdu == "Valid .edu email: "

\* the value returned and the lines printed
validate_edu_email(email) ==
    IF ~ReMatchEmail(email)
    THEN [ret |-> FALSE, out |-> <<Line(InvalidFormat, email)>>]
    ELSE IF ~ReSearchEdu(email)
    THEN [ret |-> FALSE, out |-> <<Line(NotEdu, email)>>]
    ELSE [ret |-> TRUE, out |-> <<Line(ValidEdu, email)>>]

---------------------------------------------------------------------------
(* main *)

HasNewline(s) == \E k \in 1..Len(s) : s[k] = "\n"
FirstNewline(s) ==
    CHOOSE k \in 1..Len(s) : s[k] = "\n" /\ \A m \in 1..(k-1) : s[m] # "\n"

\* input() with standard input or standard output not a terminal: the text
\* up to the first line feed, the line feed dropped; the whole text when it
\* ends without one
InputLine(s) ==
    IF HasNewline(s) THEN SubSeq(s, 1, FirstNewline(s) - 1) ELSE s

\* the line input() takes from a terminal: the text up to the first line
\* feed and that line feed; the whole text when it ends without one
RawLine(s) ==
    IF HasNewline(s) THEN SubSeq(s, 1, FirstNewline(s)) ELSE s

\* the characters of the alphabet that UTF-8 encodes in two bytes, in three
TwoBytes == {"U+017F", "U+0131", "U+00DF", "U+0085", "U+00A0"}
ThreeBytes == {"U+212A", "U+1680", "U+2000", "U+2001", "U+2002", "U+2003",
               "U+2004", "U+2005", "U+2006", "U+2007", "U+2008", "U+2009",
               "U+200A", "U+2028", "U+2029", "U+202F", "U+205F", "U+3000"}

\* what the bytes of c less the last one decode to, with the error handler
\* surrogateescape: nothing for a character of one byte, else one lone
\* surrogate (U+DC00 + byte) for each byte left
LessLastByte(c) ==
    CASE c \in {"U+0085", "U+00A0"} -> <<"U+DCC2">>
      [] c = "U+00DF" -> <<"U+DCC3">>
      [] c = "U+0131" -> <<"U+DCC4">>
      [] c = "U+017F" -> <<"U+DCC5">>
      [] c = "U+1680" -> <<"U+DCE1", "U+DC9A">>
      [] c = "U+212A" -> <<"U+DCE2", "U+DC84">>
      [] c = "U+205F" -> <<"U+DCE2", "U+DC81">>
      [] c = "U+3000" -> <<"U+DCE3", "U+DC80">>
      [] c \in ThreeBytes \ {"U+1680", "U+212A", "U+205F", "U+3000"} ->
            <<"U+DCE2", "U+DC80">>
      [] OTHER -> <<>>

\* the line ends in the middle of a character once its last byte is cut
CutsCharacter(s) == RawLine(s)[Len(RawLine(s))] \in TwoBytes \cup ThreeBytes

\* input() with standard input and standard output a terminal, on a text
\* that is not empty: the line less its last byte, taken for the line feed
\* (it is another byte when the line is ended by the end of the file), and
\* less a carriage return before it
TtyInputLine(s) ==
    LET raw  == RawLine(s)
        body == SubSeq(raw, 1, Len(raw) - 1)
        part == LessLastByte(raw[Len(raw)])
    IN  IF part # <<>> THEN body \o part
        ELSE IF body # <<>> /\ body[Len(body)] = "\r"
             THEN SubSeq(body, 1, Len(body) - 1)
        ELSE body

\* what input() leaves unread
RestAfterLine(s) ==
    IF HasNewline(s) THEN SubSeq(s, FirstNewline(s) + 1, Len(s)) ELSE <<>>

RECURSIVE LStrip(_)
LStrip(s) ==
    IF s # <<>> /\ Head(s) \in Whitespace THEN LStrip(Tail(s)) ELSE s

RECURSIVE RStrip(_)
RStrip(s) ==
    IF s # <<>> /\ s[Len(s)] \in Whitespace
    THEN RStrip(SubSeq(s, 1, Len(s) - 1))
    ELSE s

\* the mutant of Strip that strips the left side only
Strip_LeftOnly(s) == LStrip(s)

\* str.strip()
Strip(s) == RStrip(LStrip(s))

\* the prompt input() writes, with no line end
Prompt == "Enter email address: "
\* what the interpreter writes to standard error for an exception nothing
\* catches, before it exits with status 1
Traceback(exc) == Line("Traceback (most recent call last):", <<exc>>)
ValidAddress == "Valid email address"
InvalidAddress == "Invalid email address"

---------------------------------------------------------------------------
(* The inputs *)

HeadChars == {"a", "Z", "@", ".", "%", "!", "U+017F"}
Heads == UNION {[1..n -> HeadChars] : n \in 0..MaxHead}
Leads == {<<>>, <<" ">>}
Tails == {
    <<>>,
    <<".", "e", "d", "u">>,
    <<".", "E", "D", "U">>,
    <<".", "e", "D", "u">>,
    <<".", "c", "o", "m">>,
    <<".", "e", "d", "u", "c">>,
    <<".", "e", "d">>,
    <<".", "e", "d", "7">>,
    <<".", "e", "d", "u", "\n">>,
    <<".", "e", "d", "u", "\n", "\n">>,
    <<".", "e", "d", "u", " ">>,
    <<".", "e", "d", "u", "\t">>,
    <<".", "e", "d", "u", "\n", "a">> }
\* arguments of a direct call
Inputs == {l \o h \o t : l \in Leads, h \in Heads, t \in Tails}

\* how the first line of standard input ends, and what follows it
LineEnds == {
    <<>>,
    <<".", "e", "d", "u">>,
    <<".", "E", "D", "U">>,
    <<".", "c", "o", "m">>,
    <<".", "e", "d", "u", " ">>,
    <<".", "e", "d", "u", "\t">>,
    <<".", "e", "d", "u", "\r">> }
Rests == {
    <<>>,
    <<"\n">>,
    <<"\n", "\t", "Z", "@", "a", ".", "E", "D", "U", " ">>,
    <<"\n", "a", "@", "a", ".", "c", "o", "m", "\n">> }
\* texts of standard input
Stdins == {l \o h \o t \o r : l \in Leads, h \in Heads, t \in LineEnds, r \in Rests}

---------------------------------------------------------------------------
(* The image store: values *)

\* the image_name both snippets use
ImageName == "example.jpg"
Names == {ImageName, "other.jpg"}
\* sample contents of a file or of an image_data column
Blobs == {<<>>, <<255>>, <<255, 0>>}
\* no such file; a bytes variable not assigned yet
NoFile == <<-1>>
\* an image_data column that is NULL (fetched as None)
Null == <<-2>>
Row(name, data) == [image_name |-> name, image_data |-> data]
Rows == {Row(n, b) : n \in Names, b \in Blobs \cup {Null}}
Tables == UNION {[1..n -> Rows] : n \in 0..MaxRows}

\* the rows 'WHERE image_name = ...' selects, by position
Matching(t, name) == {i \in DOMAIN t : t[i].image_name = name}

\* the image_data of the rows 'WHERE image_name = ...' selects
RECURSIVE SelectData(_, _)
SelectData(t, name) ==
    IF t = <<>> THEN <<>>
    ELSE (IF Head(t).image_name = name THEN <<Head(t).image_data>> ELSE <<>>)
         \o SelectData(Tail(t), name)

\* t without its i-th row
Without(t, i) == SubSeq(t, 1, i - 1) \o SubSeq(t, i + 1, Len(t))

UploadedMsg == "Image uploaded successfully."
RetrievedMsg == "Image retrieved and written to file."

---------------------------------------------------------------------------
(* Initial states *)

MailIdle ==
    /\ read = <<>>
    /\ user_input = <<>>
    /\ ret = FALSE
    /\ out = <<>>
    /\ stderr = <<>>
    /\ calls = 0

DbIdle ==
    /\ db = "none"
    /\ cursor = "none"
    /\ txn = <<>>
    /\ result = <<>>
    /\ binary_data = NoFile
    /\ image_data = NoFile
    /\ pc = "s_connect"
    /\ err = "none"
    /\ crash_at = "none"
    /\ stmts = 0
    /\ console = <<>>
    /\ table0 = table
    /\ outfile0 = outfile
    /\ tampered = FALSE

\* before validate_edu_email is called with one of the inputs, or before
\* the file is run as a program on one of the texts of standard input
InitMail ==
    /\ \/ arg \in Inputs /\ stdin = <<>> /\ tty = FALSE /\ mpc = "call"
       \/ arg = <<>> /\ stdin \in Stdins /\ tty \in BOOLEAN /\ mpc = "start"
    /\ MailIdle
    /\ table = <<>> /\ infile = NoFile /\ outfile = NoFile
    /\ DbIdle

\* before image_store.py runs: any table, any input file, an output file
\* or none
InitDB ==
    /\ table \in Tables
    /\ infile \in Blobs \cup {NoFile}
    /\ outfile \in {NoFile, <<255, 0>>}
    /\ DbIdle
    /\ arg = <<>> /\ stdin = <<>> /\ tty = FALSE /\ mpc = "start"
    /\ MailIdle

---------------------------------------------------------------------------
(* The validator's steps *)

\* a direct call validate_edu_email(arg)
CallValidate ==
    /\ mpc = "call"
    /\ ret' = validate_edu_email(arg).ret
    /\ out' = out \o validate_edu_email(arg).out
    /\ mpc' = "returned"
    /\ UNCHANGED <<arg, stdin, read, user_input, stderr, tty, calls, dbVars>>

\* user_input = input("Enter email address: ").strip(), in the main() of
\* line 89 and, once that has returned, in the main() of line 179. input()
\* writes its prompt to standard error when standard input and standard
\* output are both a terminal, to standard output when one is not. On a
\* terminal it cuts the last byte of the line; what is left of a character
\* of several bytes is decoded to lone surrogates or is a decoding error,
\* by the error handler of standard input (surrogateescape or strict, by
\* the locale). An exception ends the program: mpc "eof_error" and
\* "decode_error" are its exit with status 1, after the traceback.
MainInput ==
    /\ \/ mpc = "start"
       \/ mpc = "main_done" /\ calls = 1
    /\ \/ /\ stdin = <<>>            \* end of file: EOFError
          /\ mpc' = "eof_error"
          /\ IF tty
             THEN /\ stderr' = stderr \o <<Line(Prompt, <<>>), Traceback("EOFError")>>
                  /\ UNCHANGED out
             ELSE /\ out' = Append(out, Line(Prompt, <<>>))
                  /\ stderr' = Append(stderr, Traceback("EOFError"))
          /\ UNCHANGED <<stdin, read, user_input>>
       \/ /\ stdin # <<>>
          /\ ~tty
          /\ read' = InputLine(stdin)
          /\ stdin' = RestAfterLine(stdin)
          /\ user_input' = Strip(InputLine(stdin))
          /\ mpc' = "main_call"
          /\ out' = Append(out, Line(Prompt, <<>>))
          /\ UNCHANGED stderr
       \/ /\ stdin # <<>>
          /\ tty
          /\ read' = TtyInputLine(stdin)
          /\ stdin' = RestAfterLine(stdin)
          /\ user_input' = Strip(TtyInputLine(stdin))
          /\ mpc' = "main_call"
          /\ stderr' = Append(stderr, Line(Prompt, <<>>))
          /\ UNCHANGED out
       \/ /\ stdin # <<>>
          /\ tty
          /\ CutsCharacter(stdin)    \* strict: UnicodeDecodeError
          /\ stdin' = RestAfterLine(stdin)
          /\ mpc' = "decode_error"
          /\ stderr' = stderr \o <<Line(Prompt, <<>>), Traceback("UnicodeDecodeError")>>
          /\ UNCHANGED <<out, read, user_input>>
    /\ UNCHANGED <<arg, ret, tty, calls, dbVars>>

\* if not validate_edu_email(user_input):
MainValidate ==
    /\ mpc = "main_call"
    /\ ret' = validate_edu_email(user_input).ret
    /\ out' = out \o validate_edu_email(user_input).out
    /\ mpc' = "main_print"
    /\ UNCHANGED <<arg, stdin, read, user_input, stderr, tty, calls, dbVars>>

\* print("Invalid email address") / print("Valid email address")
MainPrint ==
    /\ mpc = "main_print"
    /\ out' = Append(out, Line(IF ~ret THEN InvalidAddress ELSE ValidAddress, <<>>))
    /\ calls' = calls + 1
    /\ mpc' = "main_done"
    /\ UNCHANGED <<arg, stdin, read, user_input, ret, stderr, tty, dbVars>>

NextMail == CallValidate \/ MainInput \/ MainValidate \/ MainPrint

SpecMail == InitMail /\ [][NextMail]_vars

---------------------------------------------------------------------------
(* image_store.py, lines 6-28: the upload *)

\* an unhandled exception ends the script; nothing runs after it
Crash(exc) ==
    /\ err' = exc
    /\ crash_at' = pc
    /\ pc' = "crashed"

\* db = mysql.connector.connect(...)
StoreConnect ==
    /\ pc = "s_connect"
    /\ \/ /\ db' = "open"
          /\ pc' = "s_cursor"
          /\ UNCHANGED <<err, crash_at>>
       \/ /\ Crash("mysql.connector.Error")
          /\ UNCHANGED db
    /\ UNCHANGED <<table, infile, outfile, cursor, txn, result, binary_data,
                   image_data, stmts, console, table0, outfile0, tampered, mailVars>>

\* cursor = db.cursor()
StoreCursor ==
    /\ pc = "s_cursor"
    /\ cursor' = "open"
    /\ pc' = "s_read"
    /\ UNCHANGED <<table, infile, outfile, db, txn, result, binary_data, image_data,
                   err, crash_at, stmts, console, table0, outfile0, tampered, mailVars>>

\* with open('path_to_your_image.jpg', 'rb') as f: binary_data = f.read()
StoreRead ==
    /\ pc = "s_read"
    /\ \/ /\ infile # NoFile
          /\ binary_data' = infile
          /\ pc' = "s_execute"
          /\ UNCHANGED <<err, crash_at>>
       \/ /\ infile = NoFile
          /\ Crash("FileNotFoundError")
          /\ UNCHANGED binary_data
    /\ UNCHANGED <<table, infile, outfile, db, cursor, txn, result, image_data,
                   stmts, console, table0, outfile0, tampered, mailVars>>

\* cursor.execute("INSERT INTO image_store (image_name, image_data) VALUES (%s, %s)",
\*                ('example.jpg', binary_data))
StoreExecute ==
    /\ pc = "s_execute"
    /\ \/ /\ txn' = Append(txn, Row(ImageName, binary_data))
          /\ stmts' = stmts + 1
          /\ pc' = "s_commit"
          /\ UNCHANGED <<err, crash_at>>
       \/ /\ Crash("mysql.connector.Error")
          /\ UNCHANGED <<txn, stmts>>
    /\ UNCHANGED <<table, infile, outfile, db, cursor, result, binary_data,
                   image_data, console, table0, outfile0, tampered, mailVars>>

\* the mutant of Committed that loses the inserted rows
Committed_Lost(t, pending) == t

\* the table once the pending rows are committed
Committed(t, pending) == t \o pending

\* db.commit()
StoreCommit ==
    /\ pc = "s_commit"
    /\ \/ /\ table' = Committed(table, txn)
          /\ txn' = <<>>
          /\ pc' = "s_print"
          /\ UNCHANGED <<err, crash_at>>
       \/ /\ Crash("mysql.connector.Error")
          /\ UNCHANGED <<table, txn>>
    /\ UNCHANGED <<infile, outfile, db, cursor, result, binary_data, image_data,
                   stmts, console, table0, outfile0, tampered, mailVars>>

\* print("Image uploaded successfully.")
StorePrint ==
    /\ pc = "s_print"
    /\ console' = Append(console, UploadedMsg)
    /\ pc' = "s_close_cursor"
    /\ UNCHANGED <<table, infile, outfile, db, cursor, txn, result, binary_data,
                   image_data, err, crash_at, stmts, table0, outfile0, tampered,
                   mailVars>>

\* cursor.close()
StoreCloseCursor ==
    /\ pc = "s_close_cursor"
    /\ cursor' = "closed"
    /\ pc' = "s_close_db"
    /\ UNCHANGED <<table, infile, outfile, db, txn, result, binary_data, image_data,
                   err, crash_at, stmts, console, table0, outfile0, tampered, mailVars>>

\* db.close(); the script goes on with line 35
StoreCloseDb ==
    /\ pc = "s_close_db"
    /\ db' = "closed"
    /\ pc' = "r_connect"
    /\ UNCHANGED <<table, infile, outfile, cursor, txn, result, binary_data,
                   image_data, err, crash_at, stmts, console, table0, outfile0,
                   tampered, mailVars>>

---------------------------------------------------------------------------
(* image_store.py, lines 35-62: the retrieve, in the same process *)

\* db = mysql.connector.connect(...): db names a new connection
RetrieveConnect ==
    /\ pc = "r_connect"
    /\ \/ /\ db' = "open"
          /\ stmts' = 0
          /\ pc' = "r_cursor"
          /\ UNCHANGED <<err, crash_at>>
       \/ /\ Crash("mysql.connector.Error")
          /\ UNCHANGED <<db, stmts>>
    /\ UNCHANGED <<table, infile, outfile, cursor, txn, result, binary_data,
                   image_data, console, table0, outfile0, tampered, mailVars>>

\* cursor = db.cursor()
RetrieveCursor ==
    /\ pc = "r_cursor"
    /\ cursor' = "open"
    /\ pc' = "r_execute"
    /\ UNCHANGED <<table, infile, outfile, db, txn, result, binary_data, image_data,
                   err, crash_at, stmts, console, table0, outfile0, tampered, mailVars>>

\* cursor.execute("SELECT image_data FROM image_store WHERE image_name = 'example.jpg'")
RetrieveExecute ==
    /\ pc = "r_execute"
    /\ \/ /\ result' = SelectData(table, ImageName)
          /\ stmts' = stmts + 1
          /\ pc' = "r_fetch"
          /\ UNCHANGED <<err, crash_at>>
       \/ /\ Crash("mysql.connector.Error")
          /\ UNCHANGED <<result, stmts>>
    /\ UNCHANGED <<table, infile, outfile, db, cursor, txn, binary_data, image_data,
                   console, table0, outfile0, tampered, mailVars>>

\* image_data = cursor.fetchone()[0]: the statement has no ORDER BY, so the
\* first row of the result is any of the selected rows; with none selected
\* fetchone() is None and None[0] raises TypeError
RetrieveFetch ==
    /\ pc = "r_fetch"
    /\ \/ /\ \E k \in DOMAIN result : image_data' = result[k]
          /\ pc' = "r_open"
          /\ UNCHANGED <<err, crash_at>>
       \/ /\ result = <<>>
          /\ Crash("TypeError")
          /\ UNCHANGED image_data
    /\ UNCHANGED <<table, infile, outfile, db, cursor, txn, result, binary_data,
                   stmts, console, table0, outfile0, tampered, mailVars>>

\* with open('retrieved_image.jpg', 'wb') as f: the file is created, or cut
\* to nothing
RetrieveOpen ==
    /\ pc = "r_open"
    /\ \/ /\ outfile' = <<>>
          /\ pc' = "r_write"
          /\ UNCHANGED <<err, crash_at>>
       \/ /\ Crash("OSError")
          /\ UNCHANGED outfile
    /\ UNCHANGED <<table, infile, db, cursor, txn, result, binary_data, image_data,
                   stmts, console, table0, outfile0, tampered, mailVars>>

\* the beginnings of a byte sequence, itself included
Prefixes(b) == {SubSeq(b, 1, k) : k \in 0..Len(b)}

\* f.write(image_data), and the end of the with block (flush and close):
\* when one of them fails, some beginning of the data is in the file
RetrieveWrite ==
    /\ pc = "r_write"
    /\ \/ /\ image_data # Null
          /\ outfile' = image_data
          /\ pc' = "r_print"
          /\ UNCHANGED <<err, crash_at>>
       \/ /\ image_data # Null
          /\ \E part \in Prefixes(image_data) : outfile' = part
          /\ Crash("OSError")
       \/ /\ image_data = Null          \* f.write(None)
          /\ Crash("TypeError")
          /\ UNCHANGED outfile
    /\ UNCHANGED <<table, infile, db, cursor, txn, result, binary_data, image_data,
                   stmts, console, table0, outfile0, tampered, mailVars>>

\* print("Image retrieved and written to file.")
RetrievePrint ==
    /\ pc = "r_print"
    /\ console' = Append(console, RetrievedMsg)
    /\ pc' = "r_close_cursor"
    /\ UNCHANGED <<table, infile, outfile, db, cursor, txn, result, binary_data,
                   image_data, err, crash_at, stmts, table0, outfile0, tampered,
                   mailVars>>

\* cursor.close(): one row has been fetched; with rows of the result left
\* unread the driver either discards them or raises its InternalError
\* ("Unread result found"), by its version and settings
RetrieveCloseCursor ==
    /\ pc = "r_close_cursor"
    /\ \/ /\ cursor' = "closed"
          /\ pc' = "r_close_db"
          /\ UNCHANGED <<err, crash_at>>
       \/ /\ Len(result) > 1
          /\ Crash("mysql.connector.Error")
          /\ UNCHANGED cursor
    /\ UNCHANGED <<table, infile, outfile, db, txn, result, binary_data, image_data,
                   stmts, console, table0, outfile0, tampered, mailVars>>

\* db.close(); the end of the file
RetrieveCloseDb ==
    /\ pc = "r_close_db"
    /\ db' = "closed"
    /\ pc' = "done"
    /\ UNCHANGED <<table, infile, outfile, cursor, txn, result, binary_data,
                   image_data, err, crash_at, stmts, console, table0, outfile0,
                   tampered, mailVars>>

\* image_store lives on a server other clients use: one of them deletes a
\* committed row while the script runs
OtherClientDelete ==
    /\ pc \notin {"done", "crashed"}
    /\ \E i \in DOMAIN table : table' = Without(table, i)
    /\ tampered' = TRUE
    /\ UNCHANGED <<infile, outfile, db, cursor, txn, result, binary_data, image_data,
                   pc, err, crash_at, stmts, console, table0, outfile0, mailVars>>

NextDB ==
    \/ StoreConnect \/ StoreCursor \/ StoreRead \/ StoreExecute \/ StoreCommit
    \/ StorePrint \/ StoreCloseCursor \/ StoreCloseDb
    \/ RetrieveConnect \/ RetrieveCursor \/ RetrieveExecute \/ RetrieveFetch
    \/ RetrieveOpen \/ RetrieveWrite \/ RetrievePrint \/ RetrieveCloseCursor
    \/ RetrieveCloseDb
    \/ OtherClientDelete

SpecDB == InitDB /\ [][NextDB]_vars

---------------------------------------------------------------------------
(* The notions the properties are stated in *)

\* s has the general email shape, the whole of it: a local part of one or
\* more characters of [a-zA-Z0-9._%+-], an '@', a domain of one or more
\* characters of [a-zA-Z0-9.-], a '.', then two or more letters to the end
WholeShape(s) ==
    \E i \in 1..Len(s) : \E j \in 1..Len(s) :
        /\ 1 < i /\ i + 1 < j /\ j + 2 =< Len(s)
        /\ s[i] = "@" /\ s[j] = "."
        /\ \A k \in 1..(i-1) : s[k] \in LocalChars
        /\ \A k \in (i+1)..(j-1) : s[k] \in DomainChars
        /\ \A k \in (j+1)..Len(s) : s[k] \in Alpha

\* the last four characters of s are ".edu", letter case aside
EndsInEdu(s) ==
    /\ Len(s) >= 4
    /\ s[Len(s) - 3] = "."
    /\ s[Len(s) - 2] \in {"e", "E"}
    /\ s[Len(s) - 1] \in {"d", "D"}
    /\ s[Len(s)] \in {"u", "U"}

\* every character one of the pattern's classes admits
PatternChars == LocalChars \cup DomainChars \cup {"@"}

\* the positions of the letters a-z, A-Z
LetterPositions(s) == {k \in 1..Len(s) : s[k] \in Alpha}
\* the positions of the letters that have another case
CasedPositions(s) == {k \in 1..Len(s) : SwapCaseChar(s[k]) # <<s[k]>>}
RECURSIVE SwitchCaseFrom(_, _, _)
SwitchCaseFrom(s, m, k) ==
    IF k > Len(s) THEN <<>>
    ELSE (IF k \in m THEN SwapCaseChar(s[k]) ELSE <<s[k]>>) \o SwitchCaseFrom(s, m, k + 1)
\* s with the letters at the positions of m switched between the cases
SwitchCase(s, m) == SwitchCaseFrom(s, m, 1)

\* line is an address the validator accepts, with only whitespace around it
AcceptedWithin(line) ==
    \E i \in 1..Len(line) : \E j \in i..Len(line) :
        /\ \A k \in 1..(i-1) : line[k] \in Whitespace
        /\ \A k \in (j+1)..Len(line) : line[k] \in Whitespace
        /\ validate_edu_email(SubSeq(line, i, j)).ret

\* the script is over
Ended == pc \in {"done", "crashed"}

\* the retrieve's SELECT has been executed
Selected ==
    \/ pc \in {"r_fetch", "r_open", "r_write", "r_print", "r_close_cursor",
               "r_close_db", "done"}
    \/ pc = "crashed" /\ crash_at \in {"r_fetch", "r_open", "r_write"}

\* the upload is over, by its last statement or by an exception
UploadEnded ==
    \/ pc \in {"r_connect", "r_cursor", "r_execute"} \/ Selected
    \/ pc = "crashed"

---------------------------------------------------------------------------
(* The properties *)

\* C1: once the upload of bytes B (not empty) under the image name has
\* succeeded and no other client has touched the table, a retrieve that
\* has written the output file has written B, whatever rows the table
\* held before.
C1_RoundTrip ==
    (pc \in {"r_print", "r_close_cursor", "r_close_db", "done"}
        /\ ~tampered /\ binary_data # <<>>)
    => outfile = binary_data

\* C2: a retrieve whose statement selected no row ends in NotFoundError,
\* not in a crash on the empty fetch result, and leaves the output file as
\* it was.
C2_MissingRowIsNotFound ==
    (Ended /\ Selected /\ result = <<>>)
    => (err = "NotFoundError" /\ outfile = outfile0)

\* C3: validate_edu_email("") returns False and prints "Empty email
\* address", not "Invalid email format".
C3_EmptyDiagnostic ==
    (mpc = "returned" /\ arg = <<>>)
    => (ret = FALSE /\ Len(out) = 1 /\ out[1].msg = "Empty email address")

\* C4: validate_edu_email(s) is True exactly when s has the general email
\* shape and its last four characters are ".edu", letter case aside.
C4_AcceptsExactly ==
    mpc = "returned" => (ret <=> (WholeShape(arg) /\ EndsInEdu(arg)))

\* C5: a call prints one diagnostic: "Invalid email format" for a string
\* without the general shape, ending in ".edu" or not; "Email does not end
\* with .edu" for a string with the shape that does not end in ".edu";
\* "Valid .edu email" only for a string with both.
C5_OrderedDiagnostics ==
    mpc = "returned" =>
        /\ Len(out) = 1
        /\ ~WholeShape(arg) => out[1].msg = InvalidFormat
        /\ (WholeShape(arg) /\ ~EndsInEdu(arg)) => out[1].msg = NotEdu
        /\ out[1].msg = ValidEdu => (WholeShape(arg) /\ EndsInEdu(arg))

\* C6: every character of an accepted string is one the pattern's classes
\* admit: nothing before the local part, nothing after the last letter, a
\* trailing line feed included.
C6_WholeString ==
    (mpc = "returned" /\ ret) => \A k \in 1..Len(arg) : arg[k] \in PatternChars

\* C7, as stated: the value validate_edu_email returned for a string is the
\* value it returns for that string with any of its letters, whichever
\* they are, switched between upper and lower case.
C7_AnyLetter ==
    mpc = "returned" =>
        \A m \in SUBSET CasedPositions(arg) :
            validate_edu_email(SwitchCase(arg, m)).ret = ret

\* C7, amended: the value validate_edu_email returned for a string is the
\* value it returns for that string with any of its ASCII letters (a-z,
\* A-Z) switched between upper and lower case.
C7_CaseIndependent ==
    mpc = "returned" =>
        \A m \in SUBSET LetterPositions(arg) :
            validate_edu_email(SwitchCase(arg, m)).ret = ret

\* the upper case address is accepted, as its lower case form is
C7_Witness ==
    /\ mpc = "returned"
    /\ arg = <<"Z", "@", "a", ".", "E", "D", "U">>
    /\ ret
    /\ validate_edu_email(SwitchCase(arg, {1, 3, 5, 6, 7})).ret

\* C8: when the upload or the retrieve is over, however it ended, the
\* connection and the cursor it opened are closed, and one that ran to its
\* end executed one statement on its connection.
C8_ClosedOnEveryPath ==
    /\ (UploadEnded /\ pc # "crashed") => stmts =< 1
    /\ pc \in {"r_connect", "done"} => stmts = 1
    /\ (pc = "r_connect" \/ Ended) => (db # "open" /\ cursor # "open")

\* C9: the upload reads, inserts, commits, then reports: with no other
\* client changing the table, once the upload has printed its success
\* line the table is the earlier rows followed by the one row (image name,
\* bytes of the file); until the commit, and when it fails at the read or
\* at the insert, the table is the earlier rows and nothing has been
\* printed.
C9_StoreFrame ==
    ~tampered =>
        /\ console # <<>> =>
              /\ console[1] = UploadedMsg
              /\ infile # NoFile
              /\ table = Append(table0, Row(ImageName, infile))
        /\ pc \in {"s_connect", "s_cursor", "s_read", "s_execute", "s_commit"} =>
              (table = table0 /\ console = <<>>)
        /\ (pc = "crashed" /\ crash_at \in {"s_read", "s_execute"}) =>
              (table = table0 /\ console = <<>>)

\* the upload into a table that held a row has reported success
C9_Witness ==
    /\ pc = "s_close_cursor"
    /\ ~tampered
    /\ console = <<UploadedMsg>>
    /\ Len(table0) = 1
    /\ Len(table) = 2

\* C10: each call of main ends with a line on standard output that agrees
\* with the validator, after the validator's own diagnostic: "Valid email
\* address" after "Valid .edu email", "Invalid email address" otherwise;
\* and it is "Valid email address" exactly when the line read is an
\* accepted address with only whitespace around it.
C10_MainVerdict ==
    mpc = "main_done" =>
        /\ Len(out) >= 2
        /\ out[Len(out)].msg =
              (IF out[Len(out) - 1].msg = ValidEdu THEN ValidAddress ELSE InvalidAddress)
        /\ (out[Len(out) - 1].msg = ValidEdu) <=> ret
        /\ (out[Len(out)].msg = ValidAddress) <=> AcceptedWithin(read)

\* an address with a space before it and a tab after it, read as the first
\* line, has been found valid
C10_Witness ==
    /\ mpc = "main_done"
    /\ calls = 1
    /\ read = <<" ", "a", "@", "a", ".", "e", "d", "u", "\t">>
    /\ user_input = <<"a", "@", "a", ".", "e", "d", "u">>
    /\ out[Len(out) - 1].msg = ValidEdu
    /\ out[Len(out)].msg = ValidAddress

=============================================================================
